---- MODULE Spec2Model ----
(***************************************************************************)
(* WagerWise: entitlement and billing-event handling.                      *)
(*                                                                         *)
(* The model covers the User account record and its entitlement methods    *)
(* (src/models.py), the analysis request handlers that consume the free    *)
(* preview (src/app.py), and StripeManager with the webhook handler and    *)
(* the signature check (src/auth.py).                                      *)
(*                                                                         *)
(* Database: every request works in its own SQLAlchemy session.  A query   *)
(* reads the committed tables; db.session.commit() writes the attributes   *)
(* the request assigned.  A step of the model is one piece of a handler    *)
(* that runs between two points where another request can commit.          *)
(***************************************************************************)
EXTENDS Integers, FiniteSets, Sequences, TLC

(* ------------------------------ bounds -------------------------------- *)
NumUsers      == 1
NumEvents     == 2
NumDeliveries == 2
NumRequests   == 2
MaxTime       == 1
MaxSubs       == 1
MaxRetries    == 1

(* ------------------------- program constants -------------------------- *)
TrialDays        == 7
SubscriptionDays == 30
Infinity         == 1000000

None == -1

Users      == 1..NumUsers
EventIds   == 1..NumEvents
Deliveries == 1..NumDeliveries
Requests   == 1..NumRequests
Times      == 0..MaxTime

Statuses == {"trial", "active", "past_due", "cancelled"}

SubscriptionUpdated == "customer.subscription.updated"
SubscriptionDeleted == "customer.subscription.deleted"
PaymentSucceeded    == "invoice.payment_succeeded"
OtherType           == "customer.created"
EventTypes == {SubscriptionUpdated, SubscriptionDeleted, PaymentSucceeded, OtherType}
HandledTypes == {SubscriptionUpdated, SubscriptionDeleted, PaymentSucceeded}

VARIABLES
    users,      \* table users: user id -> row (registered = the row exists)
    events,     \* table stripe_events: set of rows
    analyses,   \* table bet_analysis: set of rows
    now,        \* datetime.utcnow()
    nextSub,    \* next subscription id Stripe hands out
    sent,       \* events the payment processor has created, by event id
    dpc,        \* webhook delivery: position in verify / handle_webhook
    dSig,       \* webhook delivery: the signature header is valid
    dEvent,     \* webhook delivery: the event object passed to handle_webhook
    dUser,      \* webhook delivery: local variable user (its id, or None)
    dExc,       \* webhook delivery: the exception handle_webhook raised
    dLoaded,    \* webhook delivery: the user row as User.query.get returned it
    dTries,     \* webhook delivery: times the sender has retried it
    db_calls,   \* webhook delivery: number of database statements issued
    rpc,        \* analysis request: position in the handler
    rKind,      \* analysis request: "all_bets" or "specific_bet"
    rUser,      \* analysis request: current_user.id
    rLoaded,    \* analysis request: free_preview_used as loaded in the session
    rPreview,   \* analysis request: the handler took the can_use_preview branch
    ret,        \* last value returned by an entitlement method
    mutations,  \* history: per event id, number of committed account mutations
    hwm,        \* history: per user, latest created of an event applied to it
    lastMut     \* history: per user, id of the event whose mutation came last

vars == <<users, events, analyses, now, nextSub, sent, dpc, dSig, dEvent, dUser,
          dExc, dLoaded, dTries, db_calls, rpc, rKind, rUser, rLoaded, rPreview,
          ret, mutations, hwm, lastMut>>

dvars == <<dpc, dSig, dEvent, dUser, dExc, dLoaded, dTries, db_calls>>
rvars == <<rpc, rKind, rUser, rLoaded, rPreview>>
hvars == <<mutations, hwm, lastMut>>

Max(a, b) == IF a >= b THEN a ELSE b

(* ---------------------------- src/models.py --------------------------- *)

\* A row of table users before it is inserted.
NoUser ==
    [registered |-> FALSE, is_active |-> FALSE,
     stripe_customer_id |-> None, stripe_subscription_id |-> None,
     subscription_status |-> "trial",
     subscription_start_date |-> None, subscription_end_date |-> None,
     free_preview_used |-> 0, trial_ends_at |-> None]

\* User.has_active_subscription
has_active_subscription_ge(self, t) ==
    IF self.subscription_status = "active" /\ self.subscription_end_date # None
    THEN self.subscription_end_date >= t
    ELSE FALSE

has_active_subscription(self, t) ==
    IF self.subscription_status = "active" /\ self.subscription_end_date # None
    THEN self.subscription_end_date > t
    ELSE FALSE

\* User.can_use_preview
can_use_preview_le(self) ==
    self.free_preview_used <= 1 /\ self.subscription_status = "trial"

can_use_preview_any_status(self) ==
    self.free_preview_used < 1

can_use_preview(self) ==
    self.free_preview_used < 1 /\ self.subscription_status = "trial"

\* User.has_analysis_access
has_analysis_access_any_trial(self, t) ==
    /\ self.is_active
    /\ \/ has_active_subscription(self, t)
       \/ self.subscription_status = "trial"

has_analysis_access_trial_window(self, t) ==
    /\ self.is_active
    /\ \/ has_active_subscription(self, t)
       \/ can_use_preview(self) /\ t < self.trial_ends_at

has_analysis_access(self, t) ==
    self.is_active /\ (has_active_subscription(self, t) \/ can_use_preview(self))

\* User.get_remaining_requests
get_remaining_requests_no_expiry(self, t) ==
    IF self.subscription_status = "active" THEN Infinity
    ELSE IF can_use_preview(self) THEN 1 - self.free_preview_used
    ELSE 0

get_remaining_requests(self, t) ==
    IF has_active_subscription(self, t) THEN Infinity
    ELSE IF can_use_preview(self) THEN 1 - self.free_preview_used
    ELSE 0

\* What the four entitlement methods assign to self: nothing.
EntitlementEffect_downgrade(self, t) ==
    IF self.subscription_status = "active" /\ ~has_active_subscription(self, t)
    THEN [self EXCEPT !.subscription_status = "cancelled"]
    ELSE self

EntitlementEffect_lapse(self, t) ==
    IF /\ self.subscription_status = "active"
       /\ self.subscription_end_date # None
       /\ self.subscription_end_date < t
    THEN [self EXCEPT !.subscription_status = "past_due"]
    ELSE self

EntitlementEffect(self, t) == self

EntitlementMethods ==
    {"has_active_subscription", "can_use_preview",
     "has_analysis_access", "get_remaining_requests"}

EntitlementValue(fn, self, t) ==
    CASE fn = "has_active_subscription" -> has_active_subscription(self, t)
      [] fn = "can_use_preview"         -> can_use_preview(self)
      [] fn = "has_analysis_access"     -> has_analysis_access(self, t)
      [] fn = "get_remaining_requests"  -> get_remaining_requests(self, t)

NoRet == [fn |-> "none", user |-> None, value |-> FALSE]

\* A caller evaluates one entitlement method on the row of user u.
CallEntitlement(fn, u) ==
    /\ users[u].registered
    /\ ret' = [fn |-> fn, user |-> u,
               value |-> EntitlementValue(fn, users[u], now)]
    /\ users' = [users EXCEPT ![u] = EntitlementEffect(users[u], now)]
    /\ UNCHANGED <<events, analyses, now, nextSub, sent, dvars, rvars, hvars>>

HasActiveSubscription(u) == CallEntitlement("has_active_subscription", u)
CanUsePreview(u)         == CallEntitlement("can_use_preview", u)
HasAnalysisAccess(u)     == CallEntitlement("has_analysis_access", u)
GetRemainingRequests(u)  == CallEntitlement("get_remaining_requests", u)

\* datetime.utcnow() advances.
Tick ==
    /\ now < MaxTime
    /\ now' = now + 1
    /\ UNCHANGED <<users, events, analyses, nextSub, sent, dvars, rvars, ret, hvars>>

(* ----------------------------- src/app.py ----------------------------- *)

\* register: the User row created by a successful registration.
NewUser(t) ==
    [NoUser EXCEPT !.registered = TRUE, !.is_active = TRUE,
                   !.subscription_status = "trial",
                   !.trial_ends_at = t + TrialDays]

\* register (POST): validation passed, the row is added and committed.
\* User ids are handed out in order.
Register(u) ==
    /\ ~users[u].registered
    /\ \A v \in Users : v < u => users[v].registered
    /\ users' = [users EXCEPT ![u] = NewUser(now)]
    /\ UNCHANGED <<events, analyses, now, nextSub, sent, dvars, rvars, ret, hvars>>

(* ---------------------------- src/auth.py ----------------------------- *)

\* The event object: event['id'], event['type'], event['created'] and
\* event['data']['object'] with its metadata and current_period_end.
NoEvent ==
    [id |-> None, type |-> "none", created |-> None, has_metadata |-> FALSE,
     user_id |-> None, current_period_end |-> None]

\* The period end a subscription object of event e carries: every event
\* states its own.
PeriodEnd(e) == e

\* A user id that names no row of table users.
UnknownUser == NumUsers + 1

\* The payloads the payment processor can put in event e.  Events are
\* numbered in the order the processor creates them and created is that
\* position, so a smaller created is an older event.  metadata may be
\* missing, metadata.user_id may be missing or name no row, and
\* current_period_end is carried by subscription objects only and may be
\* missing from a malformed one.
EventPayloads(e) ==
    { [id |-> e, type |-> ty, created |-> e, has_metadata |-> hm,
       user_id |-> uid, current_period_end |-> pe] :
         ty \in EventTypes, hm \in BOOLEAN,
         uid \in Users \cup {None, UnknownUser},
         pe \in {PeriodEnd(e), None} }

\* Fields no branch of handle_webhook reads are left out of the payload.
WellShaped(ev) ==
    /\ ~ev.has_metadata => ev.user_id = None
    /\ ev.type # SubscriptionUpdated => ev.current_period_end = None
    /\ ev.type = OtherType => ev.has_metadata /\ ev.user_id = None
    /\ (ev.type = SubscriptionUpdated /\ ev.user_id \notin Users)
          => ev.current_period_end = None

\* The event with id e as the payment processor created it: what an
\* earlier delivery carried, or any payload when e is delivered first.
EventsWithId(e) ==
    IF sent[e] # NoEvent THEN {sent[e]}
    ELSE {ev \in EventPayloads(e) : WellShaped(ev)}

\* The bodies a request with a bad signature carries: a payment event for
\* an account, under any event id.
ForgedEvents ==
    { [id |-> e, type |-> PaymentSucceeded, created |-> e, has_metadata |-> TRUE,
       user_id |-> u, current_period_end |-> None] : e \in EventIds, u \in Users }

\* verify_webhook_signature: the event, or None when construct_event raises.
verify_webhook_signature_unchecked(ev, signature_ok) == ev

verify_webhook_signature(ev, signature_ok) ==
    IF signature_ok THEN ev ELSE NoEvent

\* StripeEvent.query.filter_by(stripe_event_id=event_id).first()
ExistingEvent_by_row_id(event_id) ==
    \E row \in events : row.id = event_id /\ row.stripe_event_id # event_id

ExistingEvent(event_id) ==
    \E row \in events : row.stripe_event_id = event_id

\* What handle_webhook does up to line 121 with the object it is handed:
\* it reads the event, looks it up and returns when it is already recorded.
\* When verification returned None the delivery ends there: handle_webhook
\* is not called, or it raises TypeError on event['type'] before anything is
\* looked up.
HW_Lookup(d, event) ==
    /\ dEvent' = [dEvent EXCEPT ![d] = event]
    /\ IF event = NoEvent
       THEN /\ dpc' = [dpc EXCEPT ![d] = "rejected"]
            /\ UNCHANGED db_calls
       ELSE /\ db_calls' = [db_calls EXCEPT ![d] = @ + 1]
            /\ dpc' = [dpc EXCEPT ![d] =
                         IF ExistingEvent(event.id) THEN "noop" ELSE "apply"]

\* A webhook request arrives with a valid or an invalid signature; the
\* result of verify_webhook_signature is handed to handle_webhook.  The
\* payment processor delivers an event any number of times and in any
\* order.  Deliveries are numbered in the order they arrive.
WebhookReceive(d) ==
    /\ dpc[d] = "idle"
    /\ \A c \in Deliveries : c < d => dpc[c] # "idle"
    /\ \/ \E e \in EventIds : \E ev \in EventsWithId(e) :
             /\ sent' = [sent EXCEPT ![e] = ev]
             /\ dSig' = [dSig EXCEPT ![d] = TRUE]
             /\ HW_Lookup(d, verify_webhook_signature(ev, TRUE))
       \/ \E ev \in ForgedEvents :
             /\ UNCHANGED sent
             /\ dSig' = [dSig EXCEPT ![d] = FALSE]
             /\ HW_Lookup(d, verify_webhook_signature(ev, FALSE))
    /\ UNCHANGED <<users, events, analyses, now, nextSub, dUser, dExc, dLoaded,
                   dTries, rvars, ret, hvars>>

\* The assignments handle_webhook makes to the user row for an event type.
Transition_never_shortens(self, ev, t) ==
    CASE ev.type = SubscriptionUpdated ->
           [self EXCEPT !.subscription_status = "active",
                        !.subscription_end_date =
                            IF @ = None THEN ev.current_period_end
                            ELSE Max(@, ev.current_period_end)]
      [] ev.type = SubscriptionDeleted ->
           [self EXCEPT !.subscription_status = "cancelled"]
      [] ev.type = PaymentSucceeded ->
           [self EXCEPT !.subscription_status = "active"]
      [] OTHER -> self

Transition_payment_extends(self, ev, t) ==
    CASE ev.type = SubscriptionUpdated ->
           [self EXCEPT !.subscription_status = "active",
                        !.subscription_end_date = ev.current_period_end]
      [] ev.type = SubscriptionDeleted ->
           [self EXCEPT !.subscription_status = "cancelled"]
      [] ev.type = PaymentSucceeded ->
           [self EXCEPT !.subscription_status = "active",
                        !.subscription_end_date = t + SubscriptionDays]
      [] OTHER -> self

Transition_sets_start(self, ev, t) ==
    CASE ev.type = SubscriptionUpdated ->
           [self EXCEPT !.subscription_status = "active",
                        !.subscription_start_date = t,
                        !.subscription_end_date = ev.current_period_end]
      [] ev.type = SubscriptionDeleted ->
           [self EXCEPT !.subscription_status = "cancelled"]
      [] ev.type = PaymentSucceeded ->
           [self EXCEPT !.subscription_status = "active"]
      [] OTHER -> self

Transition(self, ev, t) ==
    CASE ev.type = SubscriptionUpdated ->
           [self EXCEPT !.subscription_status = "active",
                        !.subscription_end_date = ev.current_period_end]
      [] ev.type = SubscriptionDeleted ->
           [self EXCEPT !.subscription_status = "cancelled"]
      [] ev.type = PaymentSucceeded ->
           [self EXCEPT !.subscription_status = "active"]
      [] OTHER -> self

\* User.query.get(user_id): the id of the row found, or None.
QueryUser(user_id) ==
    IF user_id \in Users /\ users[user_id].registered THEN user_id ELSE None

\* The event reaches db.session.commit() of its branch: a handled type whose
\* metadata names an existing row and whose payload has the fields read.
ReachesUserCommit(ev) ==
    /\ ev.type \in HandledTypes
    /\ ev.has_metadata
    /\ ev.user_id # None
    /\ QueryUser(ev.user_id) # None
    /\ ev.type = SubscriptionUpdated => ev.current_period_end # None

\* A payload field the branch reads is missing: KeyError.
RaisesKeyError(ev) ==
    /\ ev.type \in HandledTypes
    /\ \/ ~ev.has_metadata
       \/ /\ ev.user_id # None
          /\ QueryUser(ev.user_id) # None
          /\ ev.type = SubscriptionUpdated
          /\ ev.current_period_end = None

\* Number of statements lines 123-150 issue: User.query.get, and the commit.
ApplyCalls(ev) ==
    IF ev.type \in HandledTypes /\ ev.has_metadata /\ ev.user_id # None
    THEN (IF ReachesUserCommit(ev) THEN 2 ELSE 1)
    ELSE 0

\* handle_webhook, lines 123-150: correlate the event with a user, assign
\* the new subscription fields and commit them.
HW_Apply(d) ==
    /\ dpc[d] = "apply"
    /\ LET ev == dEvent[d] IN
       /\ db_calls' = [db_calls EXCEPT ![d] = @ + ApplyCalls(ev)]
       /\ IF RaisesKeyError(ev)
          THEN /\ dpc' = [dpc EXCEPT ![d] = "raised"]
               /\ dExc' = [dExc EXCEPT ![d] = "KeyError"]
               /\ UNCHANGED <<users, dUser, dLoaded, hvars>>
          ELSE IF ReachesUserCommit(ev)
          THEN /\ users' = [users EXCEPT ![ev.user_id] = Transition(@, ev, now)]
               /\ dUser' = [dUser EXCEPT ![d] = ev.user_id]
               /\ dLoaded' = [dLoaded EXCEPT ![d] = users[ev.user_id]]
               /\ mutations' = [mutations EXCEPT ![ev.id] = @ + 1]
               /\ hwm' = [hwm EXCEPT ![ev.user_id] = Max(@, ev.created)]
               /\ lastMut' = [lastMut EXCEPT ![ev.user_id] = ev.id]
               /\ dpc' = [dpc EXCEPT ![d] = "record"]
               /\ UNCHANGED dExc
          ELSE /\ dpc' = [dpc EXCEPT ![d] = "record"]
               /\ UNCHANGED <<users, dUser, dExc, dLoaded, hvars>>
    /\ UNCHANGED <<events, analyses, now, nextSub, sent, dSig, dEvent, dTries,
                   rvars, ret>>

\* handle_webhook, lines 134/142/150: the commit of the user row fails, or
\* the process dies before it; nothing is written.
HW_ApplyFail(d) ==
    /\ dpc[d] = "apply"
    /\ ReachesUserCommit(dEvent[d])
    /\ db_calls' = [db_calls EXCEPT ![d] = @ + ApplyCalls(dEvent[d])]
    /\ dpc' = [dpc EXCEPT ![d] = "raised"]
    /\ dExc' = [dExc EXCEPT ![d] = "OperationalError"]
    /\ UNCHANGED <<users, events, analyses, now, nextSub, sent, dSig, dEvent,
                   dUser, dLoaded, dTries, rvars, ret, hvars>>

\* The StripeEvent row handle_webhook adds (lines 153-159).
StripeEventRow_raw_ref(d, ev, user) ==
    [id |-> d, stripe_event_id |-> ev.id, event_type |-> ev.type,
     user_id |-> ev.user_id, event_data |-> ev, processed |-> TRUE]

StripeEventRow(d, ev, user) ==
    [id |-> d, stripe_event_id |-> ev.id, event_type |-> ev.type,
     user_id |-> user, event_data |-> ev, processed |-> TRUE]

\* INSERT into stripe_events under the unique index on stripe_event_id.
InsertEvent_upsert(row) ==
    [ok |-> TRUE,
     table |-> {r \in events : r.stripe_event_id # row.stripe_event_id}
                  \cup {row}]

InsertEvent(row) ==
    IF \E r \in events : r.stripe_event_id = row.stripe_event_id
    THEN [ok |-> FALSE, table |-> events]
    ELSE [ok |-> TRUE, table |-> events \cup {row}]

\* handle_webhook, lines 152-164: record the event and commit.  A row with
\* the same stripe_event_id makes the commit raise IntegrityError.
HW_Record(d) ==
    /\ dpc[d] = "record"
    /\ LET res == InsertEvent(StripeEventRow(d, dEvent[d], dUser[d])) IN
       /\ events' = res.table
       /\ dpc' = [dpc EXCEPT ![d] = IF res.ok THEN "done" ELSE "raised"]
       /\ dExc' = [dExc EXCEPT ![d] = IF res.ok THEN @ ELSE "IntegrityError"]
    /\ db_calls' = [db_calls EXCEPT ![d] = @ + 1]
    /\ UNCHANGED <<users, analyses, now, nextSub, sent, dSig, dEvent, dUser,
                   dLoaded, dTries, rvars, ret, hvars>>

\* handle_webhook, line 161: the commit of the event row fails for want of
\* the database, or the process dies before it; the row is not stored.
HW_RecordFail(d) ==
    /\ dpc[d] = "record"
    /\ db_calls' = [db_calls EXCEPT ![d] = @ + 1]
    /\ dpc' = [dpc EXCEPT ![d] = "raised"]
    /\ dExc' = [dExc EXCEPT ![d] = "OperationalError"]
    /\ UNCHANGED <<users, events, analyses, now, nextSub, sent, dSig, dEvent,
                   dUser, dLoaded, dTries, rvars, ret, hvars>>

\* The sender received an error for the delivery and sends the same event
\* again: handle_webhook runs from its first line, with user = None.
HW_Retry(d) ==
    /\ dpc[d] = "raised"
    /\ dTries[d] < MaxRetries
    /\ dTries' = [dTries EXCEPT ![d] = @ + 1]
    /\ dUser' = [dUser EXCEPT ![d] = None]
    /\ dExc' = [dExc EXCEPT ![d] = "none"]
    /\ HW_Lookup(d, dEvent[d])
    /\ UNCHANGED <<users, events, analyses, now, nextSub, sent, dSig, dLoaded,
                   rvars, ret, hvars>>

\* StripeManager.create_customer: Customer.create succeeded, the customer id
\* is stored and committed.  (When Stripe raises, nothing is written.)
CreateCustomer(u) ==
    /\ users[u].registered
    /\ users[u].stripe_customer_id = None
    /\ users' = [users EXCEPT ![u].stripe_customer_id = u]
    /\ UNCHANGED <<events, analyses, now, nextSub, sent, dvars, rvars, ret, hvars>>

\* The assignments of create_subscription, lines 78-81.
Subscribed(self, sub, t) ==
    [self EXCEPT !.stripe_subscription_id = sub,
                 !.subscription_status = "active",
                 !.subscription_start_date = t,
                 !.subscription_end_date = t + SubscriptionDays]

\* StripeManager.create_subscription: creates the customer when there is
\* none, then the subscription.  When Subscription.create raises, the
\* customer id is already committed and the rest is not written.
CreateSubscription(u) ==
    /\ users[u].registered
    /\ nextSub <= MaxSubs
    /\ \E stripe_ok \in BOOLEAN :
          LET withCustomer == [users[u] EXCEPT !.stripe_customer_id = u] IN
          IF stripe_ok
          THEN /\ users' = [users EXCEPT ![u] = Subscribed(withCustomer, nextSub, now)]
               /\ nextSub' = nextSub + 1
          ELSE /\ users[u].stripe_customer_id = None
               /\ users' = [users EXCEPT ![u] = withCustomer]
               /\ UNCHANGED nextSub
    /\ UNCHANGED <<events, analyses, now, sent, dvars, rvars, ret, hvars>>

\* The assignments of cancel_subscription, lines 97-98.
Cancelled(self, t) ==
    [self EXCEPT !.subscription_status = "cancelled",
                 !.subscription_end_date = t]

\* StripeManager.cancel_subscription: acts only when the user has a
\* subscription id.  (When Stripe raises, nothing is written.)
CancelSubscription(u) ==
    /\ users[u].registered
    /\ users[u].stripe_subscription_id # None
    /\ users[u] # Cancelled(users[u], now)
    /\ users' = [users EXCEPT ![u] = Cancelled(@, now)]
    /\ UNCHANGED <<events, analyses, now, nextSub, sent, dvars, rvars, ret, hvars>>

(* ------------------- src/app.py: analysis requests -------------------- *)

AnalysisKinds == {"all_bets", "specific_bet"}

\* analyze_all_bets lines 172-176, analyze_specific_bet lines 201-213:
\* current_user is loaded, access is checked, the request body is
\* validated, and the preview counter is incremented on the loaded object.
\* Requests are numbered in the order they arrive.
ReqBegin(r) ==
    /\ rpc[r] = "idle"
    /\ \A q \in Requests : q < r => rpc[q] # "idle"
    /\ \E u \in Users, kind \in AnalysisKinds, fields_ok \in BOOLEAN :
          /\ users[u].registered
          /\ kind = "all_bets" => fields_ok
          /\ rUser' = [rUser EXCEPT ![r] = u]
          /\ rKind' = [rKind EXCEPT ![r] = kind]
          /\ IF ~has_analysis_access(users[u], now)
             THEN /\ rpc' = [rpc EXCEPT ![r] = "denied"]
                  /\ UNCHANGED <<rLoaded, rPreview>>
             ELSE IF ~fields_ok
             THEN /\ rpc' = [rpc EXCEPT ![r] = "bad_request"]
                  /\ UNCHANGED <<rLoaded, rPreview>>
             ELSE /\ rpc' = [rpc EXCEPT ![r] = "commit"]
                  /\ rLoaded' = [rLoaded EXCEPT ![r] = users[u].free_preview_used]
                  /\ rPreview' = [rPreview EXCEPT ![r] = can_use_preview(users[u])]
    /\ UNCHANGED <<users, events, analyses, now, nextSub, sent, dvars, ret, hvars>>

\* The BetAnalysis row the handler adds.
AnalysisRow(r) ==
    [id |-> r, user_id |-> rUser[r], analysis_type |-> rKind[r],
     status |-> "processing"]

\* The UPDATE the commit issues for the user row: the incremented value the
\* session holds, when the handler incremented it.
FlushPreview_sql_increment(self, r) ==
    IF rPreview[r]
    THEN [self EXCEPT !.free_preview_used = @ + 1]
    ELSE self

FlushPreview_full_row(self, r) ==
    [self EXCEPT !.free_preview_used =
                     IF rPreview[r] THEN rLoaded[r] + 1 ELSE rLoaded[r]]

FlushPreview(self, r) ==
    IF rPreview[r]
    THEN [self EXCEPT !.free_preview_used = rLoaded[r] + 1]
    ELSE self

\* db.session.add(analysis); db.session.commit(): 202.
ReqCommit(r) ==
    /\ rpc[r] = "commit"
    /\ users' = [users EXCEPT ![rUser[r]] = FlushPreview(@, r)]
    /\ analyses' = analyses \cup {AnalysisRow(r)}
    /\ rpc' = [rpc EXCEPT ![r] = "ok"]
    /\ UNCHANGED <<events, now, nextSub, sent, dvars, rKind, rUser, rLoaded,
                   rPreview, ret, hvars>>

\* What db.session.rollback() leaves in the user row: the stored values,
\* the pending increment is discarded.
Rollback_keeps_increment(self, r) == FlushPreview(self, r)

Rollback(self, r) == self

\* The commit raises: db.session.rollback(), 500.
ReqCommitFail(r) ==
    /\ rpc[r] = "commit"
    /\ users' = [users EXCEPT ![rUser[r]] = Rollback(@, r)]
    /\ rpc' = [rpc EXCEPT ![r] = "error"]
    /\ UNCHANGED <<events, analyses, now, nextSub, sent, dvars, rKind,
                   rUser, rLoaded, rPreview, ret, hvars>>

(* --------------------------- specifications --------------------------- *)

InitLocals ==
    /\ events = {}
    /\ analyses = {}
    /\ nextSub = 1
    /\ sent = [e \in EventIds |-> NoEvent]
    /\ dpc = [d \in Deliveries |-> "idle"]
    /\ dSig = [d \in Deliveries |-> FALSE]
    /\ dEvent = [d \in Deliveries |-> NoEvent]
    /\ dUser = [d \in Deliveries |-> None]
    /\ dExc = [d \in Deliveries |-> "none"]
    /\ dLoaded = [d \in Deliveries |-> NoUser]
    /\ dTries = [d \in Deliveries |-> 0]
    /\ db_calls = [d \in Deliveries |-> 0]
    /\ rpc = [r \in Requests |-> "idle"]
    /\ rKind = [r \in Requests |-> "all_bets"]
    /\ rUser = [r \in Requests |-> None]
    /\ rLoaded = [r \in Requests |-> 0]
    /\ rPreview = [r \in Requests |-> FALSE]
    /\ ret = NoRet
    /\ mutations = [e \in EventIds |-> 0]
    /\ hwm = [u \in Users |-> None]
    /\ lastMut = [u \in Users |-> None]

\* The empty database.
Init ==
    /\ users = [u \in Users |-> NoUser]
    /\ now = 0
    /\ InitLocals

Next ==
    \/ Tick
    \/ \E u \in Users : Register(u)
    \/ \E u \in Users : CreateCustomer(u)
    \/ \E u \in Users : CreateSubscription(u)
    \/ \E u \in Users : CancelSubscription(u)
    \/ \E d \in Deliveries : WebhookReceive(d)
    \/ \E d \in Deliveries : HW_Apply(d)
    \/ \E d \in Deliveries : HW_ApplyFail(d)
    \/ \E d \in Deliveries : HW_Record(d)
    \/ \E d \in Deliveries : HW_RecordFail(d)
    \/ \E r \in Requests : ReqBegin(r)
    \/ \E r \in Requests : ReqCommit(r)
    \/ \E r \in Requests : ReqCommitFail(r)

Spec == Init /\ [][Next]_vars

\* The billing event processor alone: the webhook deliveries against the
\* registered accounts.  handle_webhook does not read the clock.
InitBilling ==
    /\ users = [u \in Users |-> NewUser(0)]
    /\ now = 0
    /\ InitLocals

NextBilling ==
    \/ \E d \in Deliveries : WebhookReceive(d)
    \/ \E d \in Deliveries : HW_Apply(d)
    \/ \E d \in Deliveries : HW_ApplyFail(d)
    \/ \E d \in Deliveries : HW_Record(d)
    \/ \E d \in Deliveries : HW_RecordFail(d)

SpecBilling == InitBilling /\ [][NextBilling]_vars

\* The analysis requests alone, against registered accounts.
NextPreview ==
    \/ Tick
    \/ \E u \in Users : Register(u)
    \/ \E r \in Requests : ReqBegin(r)
    \/ \E r \in Requests : ReqCommit(r)
    \/ \E r \in Requests : ReqCommitFail(r)

SpecPreview == Init /\ [][NextPreview]_vars

\* The billing event processor with the sender's retries.
NextRetry ==
    \/ NextBilling
    \/ \E d \in Deliveries : HW_Retry(d)

SpecRetry == InitBilling /\ [][NextRetry]_vars

\* The first delivery alone.
OneDelivery == {d \in Deliveries : d = 1}

HandleOne ==
    \/ \E d \in OneDelivery : WebhookReceive(d)
    \/ \E d \in OneDelivery : HW_Apply(d)
    \/ \E d \in OneDelivery : HW_ApplyFail(d)
    \/ \E d \in OneDelivery : HW_Record(d)
    \/ \E d \in OneDelivery : HW_RecordFail(d)

\* An event and its redelivery: the first two deliveries.
TwoDeliveries == {d \in Deliveries : d <= 2}

NextPair ==
    \/ \E d \in TwoDeliveries : WebhookReceive(d)
    \/ \E d \in TwoDeliveries : HW_Apply(d)
    \/ \E d \in TwoDeliveries : HW_ApplyFail(d)
    \/ \E d \in TwoDeliveries : HW_Record(d)
    \/ \E d \in TwoDeliveries : HW_RecordFail(d)

SpecPair == InitBilling /\ [][NextPair]_vars

\* The account rows a webhook can find: any status, with or without an
\* end date.
StartRecords ==
    { [NewUser(0) EXCEPT !.subscription_status = st,
                         !.subscription_end_date = en] :
         st \in Statuses, en \in {None, MaxTime + 1} }

InitApply ==
    /\ users \in [Users -> StartRecords]
    /\ now = 0
    /\ InitLocals

\* One call of handle_webhook on any account row.
NextApply ==
    \/ Tick
    \/ HandleOne

SpecApply == InitApply /\ [][NextApply]_vars

\* The subscription manager and one webhook delivery.
NextManager ==
    \/ Tick
    \/ \E u \in Users : CreateCustomer(u)
    \/ \E u \in Users : CreateSubscription(u)
    \/ \E u \in Users : CancelSubscription(u)
    \/ HandleOne

SpecManager == InitBilling /\ [][NextManager]_vars

\* The analysis requests interleaved with one webhook delivery.
NextUsage ==
    \/ \E r \in Requests : ReqBegin(r)
    \/ \E r \in Requests : ReqCommit(r)
    \/ \E r \in Requests : ReqCommitFail(r)
    \/ HandleOne

SpecUsage == InitBilling /\ [][NextUsage]_vars

\* Accounts whose subscription ran out at time 0 and was never closed.
LapsedRecords ==
    { [NewUser(0) EXCEPT !.subscription_status = "active",
                         !.subscription_end_date = 0,
                         !.free_preview_used = fp] : fp \in {0, 1} }

InitLapsed ==
    /\ users \in [Users -> LapsedRecords]
    /\ now = 0
    /\ InitLocals

OneRequest == {r \in Requests : r = 1}

\* What happens to a lapsed account: the dashboard evaluates the
\* entitlement, an analysis is requested, a webhook event arrives.
NextLapsed ==
    \/ Tick
    \/ \E u \in Users : HasAnalysisAccess(u)
    \/ \E u \in Users : GetRemainingRequests(u)
    \/ \E r \in OneRequest : ReqBegin(r)
    \/ \E r \in OneRequest : ReqCommit(r)
    \/ \E r \in OneRequest : ReqCommitFail(r)
    \/ HandleOne

SpecLapsed == InitLapsed /\ [][NextLapsed]_vars

\* The account rows an analysis request can find.
RequestRecords ==
    { [NewUser(0) EXCEPT !.is_active = ia,
                         !.subscription_status = st,
                         !.subscription_end_date = en,
                         !.free_preview_used = fp] :
         ia \in BOOLEAN, st \in Statuses, en \in {None, 1}, fp \in {0, 1} }

InitRequests ==
    /\ users \in [Users -> RequestRecords]
    /\ now = 0
    /\ InitLocals

\* The analysis requests on any account row, while the clock advances.
NextRequests ==
    \/ Tick
    \/ \E r \in Requests : ReqBegin(r)
    \/ \E r \in Requests : ReqCommit(r)
    \/ \E r \in Requests : ReqCommitFail(r)

SpecRequests == InitRequests /\ [][NextRequests]_vars

\* The account records the entitlement methods are evaluated on.
AccountRecords ==
    { [registered |-> TRUE, is_active |-> ia,
       stripe_customer_id |-> None, stripe_subscription_id |-> None,
       subscription_status |-> st,
       subscription_start_date |-> None, subscription_end_date |-> en,
       free_preview_used |-> fp, trial_ends_at |-> te] :
         ia \in BOOLEAN, st \in Statuses, en \in {None} \cup 0..(MaxTime + 1),
         fp \in {0, 1}, te \in {0, TrialDays} }

InitEval ==
    /\ users \in [Users -> AccountRecords]
    /\ now \in Times
    /\ InitLocals

NextEval ==
    \/ Tick
    \/ \E u \in Users : HasActiveSubscription(u)
    \/ \E u \in Users : CanUsePreview(u)
    \/ \E u \in Users : HasAnalysisAccess(u)
    \/ \E u \in Users : GetRemainingRequests(u)

SpecEval == InitEval /\ [][NextEval]_vars

TypeOK ==
    /\ \A u \in Users : users[u].subscription_status \in Statuses
    /\ now \in Times

(* ------------------------------- claims ------------------------------- *)

RowsOf(e) == {row \in events : row.stripe_event_id = e}

DeliveriesOf(e) == {d \in Deliveries : dEvent[d].id = e}

\* No delivery of event e is inside handle_webhook.
Quiescent(e) == \A d \in DeliveriesOf(e) : dpc[d] \notin {"apply", "record"}

\* C1: idempotent replay.  A delivery of an event whose row is already in
\* the event store changes neither the users table nor the event store, and
\* handle_webhook returns without raising (the no-op result).
C1_IdempotentReplay ==
    [][\A d \in Deliveries :
         ( /\ dpc[d] = "idle" /\ dpc'[d] # "idle"
           /\ dEvent'[d] # NoEvent
           /\ \E row \in events : row.stripe_event_id = dEvent'[d].id )
         => ( /\ users' = users
              /\ events' = events
              /\ mutations' = mutations
              /\ dpc'[d] = "noop"
              /\ dExc'[d] = "none" )]_vars

\* A second delivery of an event that changed an account was a no-op.
C1_Witness ==
    \E d \in Deliveries :
       /\ dpc[d] = "noop"
       /\ \E row \in events :
             /\ row.stripe_event_id = dEvent[d].id
             /\ row.user_id # None
             /\ row.id # d
       /\ mutations[dEvent[d].id] = 1

\* C2: concurrent duplicate delivery.  When no delivery of event e failed
\* for want of the database, the account was mutated at most once for e,
\* the event store holds at most one row for e, and no delivery of e raised
\* the uniqueness violation.
C2_ConcurrentDuplicate ==
    \A e \in EventIds :
       (\A d \in DeliveriesOf(e) : dExc[d] # "OperationalError")
       => ( /\ mutations[e] <= 1
            /\ Cardinality(RowsOf(e)) <= 1
            /\ \A d \in DeliveriesOf(e) : dExc[d] # "IntegrityError" )

\* C3: ordering policy.  A delivery that applies an event older than the
\* latest event already applied to the account leaves the users table
\* unchanged, and the event is then stored as processed.
C3_StaleEventSkipped ==
    [][\A d \in Deliveries :
         LET ev == dEvent[d] IN
         ( /\ ev.user_id \in Users
           /\ ev.created < hwm[ev.user_id] )
         => ( /\ (dpc[d] = "apply" /\ dpc'[d] # "apply") => users' = users
              /\ (dpc[d] = "record" /\ dpc'[d] = "done")
                    => \E row \in events' :
                          row.stripe_event_id = ev.id /\ row.processed )]_vars

\* C4: out-of-order safety.  When two subscription_updated events for the
\* same account with different period ends have both been applied once and
\* stored, and nothing else wrote the account, subscription_end_date is the
\* period end of the event created later, whatever the order of arrival.
C4_OutOfOrderSafety ==
    \A e1, e2 \in EventIds :
       LET u == sent[e1].user_id IN
       ( /\ sent[e1].type = SubscriptionUpdated
         /\ sent[e2].type = SubscriptionUpdated
         /\ u \in Users /\ sent[e2].user_id = u
         /\ sent[e1].created > sent[e2].created
         /\ sent[e1].current_period_end # sent[e2].current_period_end
         /\ \A e \in {e1, e2} :
               /\ mutations[e] = 1
               /\ Quiescent(e)
               /\ \E row \in RowsOf(e) : row.processed /\ row.user_id = u
         /\ \A e \in EventIds \ {e1, e2} :
               sent[e].user_id = u => mutations[e] = 0
         /\ users[u].stripe_subscription_id = None )
       => users[u].subscription_end_date = sent[e1].current_period_end

\* C5: atomicity of apply.  Whenever no delivery of event e is inside
\* handle_webhook, the account mutation of e is committed if and only if e
\* is stored as processed for that account.
C5_Atomicity ==
    \A e \in EventIds :
       Quiescent(e)
       => ( mutations[e] > 0
            <=> \E row \in RowsOf(e) : row.processed /\ row.user_id # None )

\* The requests of user u that were granted the free preview.
Granted(u) ==
    {r \in Requests : rUser[r] = u /\ rpc[r] = "ok" /\ rPreview[r]}

\* C6: preview single-consumption.  At most one analysis request of an
\* account is granted the free preview, and free_preview_used is at most 1.
C6_SinglePreview ==
    \A u \in Users :
       /\ Cardinality(Granted(u)) <= 1
       /\ users[u].free_preview_used <= 1

\* The access rule as the data model states it.
StatedAccess(self, t) ==
    \/ /\ self.subscription_status = "active"
       /\ self.subscription_end_date # None
       /\ self.subscription_end_date > t
    \/ /\ self.subscription_status = "trial"
       /\ self.free_preview_used < 1

\* C7 as stated: has_analysis_access is true iff the subscription is active
\* and unexpired or the account is on trial with the preview unused, and no
\* other field matters.
C7_Original ==
    \A u \in Users :
       has_analysis_access(users[u], now) <=> StatedAccess(users[u], now)

\* C7 as amended: has_analysis_access is true iff is_active is set and the
\* subscription is active and unexpired or the account is on trial with the
\* preview unused; is_active is the only other field that matters.
C7_Amended ==
    \A u \in Users :
       has_analysis_access(users[u], now)
          <=> (users[u].is_active /\ StatedAccess(users[u], now))

\* has_analysis_access denied an account that is not is_active although it
\* is on trial with the preview unused.
C7_Witness ==
    /\ ret.fn = "has_analysis_access"
    /\ ret.value = FALSE
    /\ ~users[ret.user].is_active
    /\ StatedAccess(users[ret.user], now)

\* C8: get_remaining_requests is unbounded for an active unexpired
\* subscription, 1 - free_preview_used for a trial account with the preview
\* unused, and 0 for every other account record.
C8_Remaining ==
    \A u \in Users :
       LET self == users[u]
           active == /\ self.subscription_status = "active"
                     /\ self.subscription_end_date # None
                     /\ self.subscription_end_date > now
           trial == /\ self.subscription_status = "trial"
                    /\ self.free_preview_used < 1
           r == get_remaining_requests(self, now)
       IN /\ active => r = Infinity
          /\ trial => r = 1 - self.free_preview_used
          /\ (~active /\ ~trial) => r = 0

\* get_remaining_requests answered 0 for an expired active subscription.
C8_Witness ==
    /\ ret.fn = "get_remaining_requests"
    /\ ret.value = 0
    /\ users[ret.user].subscription_status = "active"
    /\ users[ret.user].subscription_end_date # None
    /\ users[ret.user].subscription_end_date <= now

\* C9: entitlement purity.  Every evaluation of has_active_subscription,
\* can_use_preview, has_analysis_access or get_remaining_requests leaves
\* the users table, the event store and the analyses unchanged.
C9_Purity ==
    [][ret' # ret => (users' = users /\ events' = events /\ analyses' = analyses)]_vars

\* An entitlement method was evaluated on an expired active subscription,
\* which is still active.
C9_Witness ==
    /\ ret.fn = "has_active_subscription"
    /\ ret.value = FALSE
    /\ users[ret.user].subscription_status = "active"
    /\ users[ret.user].subscription_end_date # None
    /\ users[ret.user].subscription_end_date <= now

\* C10: authenticity.  A delivery whose signature does not verify issues
\* no database statement, stores no event row, changes no account, and
\* ends rejected.
C10_Authenticity ==
    [][\A d \in Deliveries :
         (dpc'[d] # "idle" /\ ~dSig'[d])
         => ( /\ db_calls'[d] = 0
              /\ dpc'[d] = "rejected"
              /\ \A row \in events' : row.id # d
              /\ dpc[d] = "idle"
                    => (users' = users /\ events' = events
                        /\ mutations' = mutations) )]_vars

\* A delivery with a bad signature was rejected while an account is
\* registered and another delivery has stored its event.
C10_Witness ==
    \E d \in Deliveries :
       /\ dpc[d] = "rejected"
       /\ ~dSig[d]
       /\ db_calls[d] = 0
       /\ \E u \in Users : users[u].registered
       /\ \E c \in Deliveries : dpc[c] = "done" /\ c > d

\* C11: the subscription state machine.  Every change of an account's
\* subscription_status follows one of the edges trial -> active,
\* active -> past_due, active -> cancelled, past_due -> active, or
\* cancelled -> active together with a new stripe_subscription_id; in
\* particular trial -> cancelled never happens, and cancelled -> active
\* never happens with the subscription reference unchanged.
C11_StateMachine ==
    [][\A u \in Users :
         LET old == users[u]
             new == users'[u]
         IN  old.subscription_status # new.subscription_status =>
               \/ <<old.subscription_status, new.subscription_status>> \in
                     { <<"trial", "active">>, <<"active", "past_due">>,
                       <<"active", "cancelled">>, <<"past_due", "active">> }
               \/ /\ old.subscription_status = "cancelled"
                  /\ new.subscription_status = "active"
                  /\ new.stripe_subscription_id # old.stripe_subscription_id]_vars

\* C12: the subscription_updated transition.  When handle_webhook applies a
\* not yet recorded customer.subscription.updated event that names an
\* existing account and carries current_period_end, the account has
\* subscription_status = "active" and subscription_end_date = the event's
\* current_period_end afterwards, whatever its status and end date were;
\* the only other outcome is the failed commit, which writes nothing.
C12_SubscriptionUpdated ==
    [][\A d \in Deliveries :
         LET ev == dEvent[d] IN
         ( /\ dpc[d] = "apply" /\ dpc'[d] # "apply"
           /\ ev.type = SubscriptionUpdated
           /\ ev.has_metadata
           /\ ev.user_id \in Users
           /\ ev.current_period_end # None )
         => \/ /\ dpc'[d] = "record"
               /\ users'[ev.user_id].subscription_status = "active"
               /\ users'[ev.user_id].subscription_end_date = ev.current_period_end
            \/ /\ dpc'[d] = "raised"
               /\ dExc'[d] = "OperationalError"
               /\ users' = users]_vars

\* A subscription_updated event was applied to a past_due account whose end
\* date was later than the event's period end.
C12_Witness ==
    \E d \in Deliveries :
       /\ dpc[d] = "record"
       /\ dEvent[d].type = SubscriptionUpdated
       /\ dLoaded[d].subscription_status = "past_due"
       /\ dLoaded[d].subscription_end_date # None
       /\ dLoaded[d].subscription_end_date > dEvent[d].current_period_end
       /\ users[dEvent[d].user_id].subscription_status = "active"
       /\ users[dEvent[d].user_id].subscription_end_date = dEvent[d].current_period_end

\* C13: the subscription_deleted transition.  When handle_webhook applies a
\* not yet recorded customer.subscription.deleted event that names an
\* existing account, the account has subscription_status = "cancelled" and
\* subscription_end_date = the time of processing afterwards (so the end
\* date is not after the current time); the only other outcome is the
\* failed commit, which writes nothing.
C13_SubscriptionDeleted ==
    [][\A d \in Deliveries :
         LET ev == dEvent[d] IN
         ( /\ dpc[d] = "apply" /\ dpc'[d] # "apply"
           /\ ev.type = SubscriptionDeleted
           /\ ev.has_metadata
           /\ ev.user_id \in Users )
         => \/ /\ dpc'[d] = "record"
               /\ users'[ev.user_id].subscription_status = "cancelled"
               /\ users'[ev.user_id].subscription_end_date = now
            \/ /\ dpc'[d] = "raised"
               /\ dExc'[d] = "OperationalError"
               /\ users' = users]_vars

\* C14: the payment_succeeded transition and its frame.  When
\* handle_webhook applies a not yet recorded invoice.payment_succeeded
\* event that names an existing account, the account has
\* subscription_status = "active" afterwards and every other field of it,
\* subscription_end_date included, and every other account are as before;
\* the only other outcome is the failed commit, which writes nothing.
C14_PaymentSucceeded ==
    [][\A d \in Deliveries :
         LET ev == dEvent[d] IN
         ( /\ dpc[d] = "apply" /\ dpc'[d] # "apply"
           /\ ev.type = PaymentSucceeded
           /\ ev.has_metadata
           /\ ev.user_id \in Users )
         => \/ /\ dpc'[d] = "record"
               /\ users' = [users EXCEPT
                              ![ev.user_id].subscription_status = "active"]
            \/ /\ dpc'[d] = "raised"
               /\ dExc'[d] = "OperationalError"
               /\ users' = users]_vars

\* A payment_succeeded event was applied to an account that was not active
\* and had an end date: only the status differs from the row as loaded.
C14_Witness ==
    \E d \in Deliveries :
       /\ dpc[d] = "record"
       /\ dEvent[d].type = PaymentSucceeded
       /\ dLoaded[d].subscription_status = "cancelled"
       /\ dLoaded[d].subscription_end_date # None
       /\ users[dEvent[d].user_id] =
             [dLoaded[d] EXCEPT !.subscription_status = "active"]

\* The event has metadata that names no existing account.
CorrelationMiss(ev) ==
    /\ ev # NoEvent
    /\ ev.has_metadata
    /\ \/ ev.user_id = None
       \/ ev.user_id \notin {u \in Users : users[u].registered}

\* C15: correlation miss.  A not yet recorded event whose metadata carries
\* no user id, or a user id that matches no account, changes no account; it
\* is stored with user_id absent and processed = TRUE and handle_webhook
\* returns without raising (unless the database fails the insert); a later
\* delivery of the event is a no-op that changes nothing.
C15_CorrelationMiss ==
    [][\A d \in Deliveries :
         /\ ( dpc[d] = "apply" /\ dpc'[d] # "apply" /\ CorrelationMiss(dEvent[d]) )
            => ( /\ users' = users
                 /\ events' = events
                 /\ dpc'[d] = "record"
                 /\ dUser'[d] = None
                 /\ dExc'[d] = "none" )
         /\ ( /\ dpc[d] = "record" /\ dpc'[d] # "record"
              /\ CorrelationMiss(dEvent[d])
              /\ \A row \in events : row.stripe_event_id # dEvent[d].id )
            => /\ users' = users
               /\ \/ /\ dpc'[d] = "done"
                     /\ dExc'[d] = "none"
                     /\ \E row \in events' \ events :
                           /\ events' = events \cup {row}
                           /\ row.stripe_event_id = dEvent[d].id
                           /\ row.user_id = None
                           /\ row.processed
                  \/ /\ dpc'[d] = "raised"
                     /\ dExc'[d] = "OperationalError"
                     /\ events' = events
         /\ ( /\ dpc[d] = "idle" /\ dpc'[d] # "idle"
              /\ CorrelationMiss(dEvent'[d])
              /\ \E row \in events : row.stripe_event_id = dEvent'[d].id )
            => ( /\ dpc'[d] = "noop"
                 /\ dExc'[d] = "none"
                 /\ users' = users
                 /\ events' = events )]_vars

\* An event naming an unknown user was stored without an account and
\* delivered again as a no-op; no account has changed.
C15_Witness ==
    \E d \in Deliveries :
       /\ dpc[d] = "noop"
       /\ dEvent[d].type \in HandledTypes
       /\ dEvent[d].user_id = UnknownUser
       /\ \E row \in events :
             /\ row.stripe_event_id = dEvent[d].id
             /\ row.user_id = None
             /\ row.processed
             /\ row.id # d
       /\ \A u \in Users : users[u] = NewUser(0)

\* The event is of a handled type and lacks a field its branch reads.
Malformed(ev) ==
    /\ ev.type \in HandledTypes
    /\ \/ ~ev.has_metadata
       \/ /\ ev.type = SubscriptionUpdated
          /\ ev.user_id \in {u \in Users : users[u].registered}
          /\ ev.current_period_end = None

\* C16: malformed payload.  Applying a not yet recorded event of a handled
\* type that lacks a required field (no metadata, or subscription_updated
\* without current_period_end) leaves the accounts unchanged, raises no
\* error and goes on to store the event as processed; a later delivery of
\* the event is then a no-op.
C16_MalformedPayload ==
    [][\A d \in Deliveries :
         /\ ( dpc[d] = "apply" /\ dpc'[d] # "apply" /\ Malformed(dEvent[d]) )
            => ( /\ users' = users
                 /\ dpc'[d] = "record"
                 /\ dExc'[d] = "none" )
         /\ ( /\ dpc[d] = "idle" /\ dpc'[d] # "idle"
              /\ Malformed(dEvent'[d])
              /\ \E c \in Deliveries :
                    dEvent[c] = dEvent'[d] /\ dpc[c] \in {"done", "raised"} )
            => ( /\ dpc'[d] = "noop"
                 /\ users' = users
                 /\ events' = events )]_vars

\* C17: a transient failure is safe to retry.  When the sender retries a
\* delivery of event E after an error, and E's assignments were already
\* committed to the account by an earlier attempt, the retry does not commit
\* them again on top of another event's assignments: either it changes
\* nothing, or E's were the last ones committed to that account.
C17_RetrySafety ==
    [][\A d \in Deliveries :
         LET ev == dEvent[d] IN
         ( /\ dpc[d] = "apply"
           /\ dTries[d] > 0
           /\ mutations[ev.id] > 0
           /\ mutations'[ev.id] > mutations[ev.id] )
         => lastMut[ev.user_id] = ev.id]_vars

\* C18: an active account has an end date.  In every reachable state, an
\* account with subscription_status = "active" has a subscription_end_date
\* that is not NULL.
C18_ActiveHasEnd ==
    \A u \in Users :
       (users[u].registered /\ users[u].subscription_status = "active")
          => users[u].subscription_end_date # None

\* C19: who may change the status.  A step that changes the
\* subscription_status of any account is a step of handle_webhook or of
\* cancel_subscription; every other operation, create_customer and
\* create_subscription included, leaves every account's status as it was.
C19_StatusWriters ==
    [][(\E u \in Users :
           users'[u].subscription_status # users[u].subscription_status)
       => \/ \E d \in Deliveries : HW_Apply(d)
          \/ \E u \in Users : CancelSubscription(u)]_vars

\* C20: the preview counter is bounded.  In every state reachable by any
\* interleaving of analysis requests and webhook deliveries,
\* free_preview_used of every account is 0 or 1.
C20_PreviewBounded ==
    \A u \in Users : users[u].free_preview_used \in {0, 1}

\* Two requests of one user both took the preview branch and committed,
\* and a webhook event was applied to that user; the counter is 1.
C20_Witness ==
    \E r1, r2 \in Requests : \E d \in Deliveries :
       /\ r1 # r2
       /\ rpc[r1] = "ok" /\ rpc[r2] = "ok"
       /\ rPreview[r1] /\ rPreview[r2]
       /\ rUser[r1] = rUser[r2]
       /\ dpc[d] = "done" /\ dUser[d] = rUser[r1]
       /\ users[rUser[r1]].free_preview_used = 1

\* C21: the preview counter never decreases.  No step (an analysis request
\* committing or failing, a webhook delivery) takes the committed
\* free_preview_used of an account to a smaller value, and the assignments
\* of create_subscription and cancel_subscription leave it as it is on
\* every row.
C21_PreviewMonotone ==
    /\ [][\A u \in Users :
            users'[u].free_preview_used >= users[u].free_preview_used]_vars
    /\ [](\A u \in Users : \A sub \in 1..MaxSubs :
             /\ Subscribed(users[u], sub, now).free_preview_used
                   = users[u].free_preview_used
             /\ Cancelled(users[u], now).free_preview_used
                   = users[u].free_preview_used)

\* A request that loaded the counter at 0 and did not take the preview
\* branch committed after the counter had reached 1; the counter is still 1.
C21_Witness ==
    \E r \in Requests :
       /\ rpc[r] = "ok"
       /\ ~rPreview[r]
       /\ rLoaded[r] = 0
       /\ users[rUser[r]].free_preview_used = 1

\* The subscription is active on paper and its end date has passed.
Lapsed(self, t) ==
    /\ self.subscription_status = "active"
    /\ self.subscription_end_date # None
    /\ self.subscription_end_date < t

\* C22: no self-expiry.  For an account with subscription_status = "active"
\* and subscription_end_date earlier than now, has_analysis_access is false
\* and get_remaining_requests is 0; and no step changes the status or the
\* end date of such an account except handle_webhook applying a
\* customer.subscription.deleted or customer.subscription.updated event
\* for it: entitlement evaluations and analysis requests leave it active.
C22_NoSelfExpiry ==
    /\ [](\A u \in Users :
            Lapsed(users[u], now) =>
               /\ ~has_analysis_access(users[u], now)
               /\ get_remaining_requests(users[u], now) = 0)
    /\ [][\A u \in Users :
            ( /\ Lapsed(users[u], now)
              /\ \/ users'[u].subscription_status # "active"
                 \/ users'[u].subscription_end_date # users[u].subscription_end_date )
            => \E d \in Deliveries :
                  /\ dpc[d] = "apply" /\ dpc'[d] = "record"
                  /\ dEvent[d].user_id = u
                  /\ dEvent[d].type \in {SubscriptionDeleted, SubscriptionUpdated}]_vars

\* A lapsed account was refused an analysis and the dashboard then computed
\* 0 remaining requests for it; it is still active.
C22_Witness ==
    /\ ret.fn = "get_remaining_requests"
    /\ ret.value = 0
    /\ Lapsed(users[ret.user], now)
    /\ \E r \in Requests : rpc[r] = "denied" /\ rUser[r] = ret.user

\* C23: the fresh trial scenario.  A registered account on trial with
\* free_preview_used = 0 has has_analysis_access true and
\* get_remaining_requests 1; the commit of a request that took the preview
\* leaves the counter at 1, where has_analysis_access is false and
\* get_remaining_requests is 0; and every analysis request that arrives
\* while the account is on trial with the preview used is denied and
\* changes nothing.
C23_FreshTrial ==
    /\ [](\A u \in Users :
            ( /\ users[u].registered
              /\ users[u].is_active
              /\ users[u].subscription_status = "trial" )
            => IF users[u].free_preview_used = 0
               THEN /\ has_analysis_access(users[u], now)
                    /\ get_remaining_requests(users[u], now) = 1
               ELSE /\ ~has_analysis_access(users[u], now)
                    /\ get_remaining_requests(users[u], now) = 0)
    /\ [][\A r \in Requests :
            /\ (rpc[r] = "commit" /\ rpc'[r] = "ok" /\ rPreview[r])
               => users'[rUser[r]].free_preview_used = 1
            /\ ( /\ rpc[r] = "idle" /\ rpc'[r] # "idle"
                 /\ users[rUser'[r]].subscription_status = "trial"
                 /\ users[rUser'[r]].free_preview_used >= 1 )
               => ( /\ rpc'[r] = "denied"
                    /\ users' = users
                    /\ analyses' = analyses )]_vars

\* A request consumed the preview of a trial account and a later request
\* of the same account was denied.
C23_Witness ==
    \E r1, r2 \in Requests :
       /\ r1 < r2
       /\ rUser[r1] = rUser[r2]
       /\ rpc[r1] = "ok" /\ rPreview[r1]
       /\ rpc[r2] = "denied"
       /\ users[rUser[r1]].subscription_status = "trial"
       /\ users[rUser[r1]].free_preview_used = 1
       /\ \A row \in analyses : row.id # r2

\* C24: the event store is append-only.  Every row of stripe_events is
\* still there after every step with the same row id, stripe_event_id,
\* event_type, user_id and event_data, and a row that is processed stays
\* processed.
C24_AppendOnly ==
    [][\A row \in events : \E kept \in events' :
          /\ kept.id = row.id
          /\ kept.stripe_event_id = row.stripe_event_id
          /\ kept.event_type = row.event_type
          /\ kept.user_id = row.user_id
          /\ kept.event_data = row.event_data
          /\ row.processed => kept.processed]_vars

\* With the row of an event stored, a second delivery of the same event
\* tried to insert its own row and failed; the first row is still there.
C24_Witness ==
    \E d \in Deliveries : \E row \in events :
       /\ dpc[d] = "raised"
       /\ dExc[d] = "IntegrityError"
       /\ row.stripe_event_id = dEvent[d].id
       /\ row.id # d
       /\ row.processed
       /\ Cardinality(events) = 1

\* is_active and (an active subscription that has not ended, or an unused
\* preview on trial), written out on the columns.
Entitled(self, t) ==
    /\ self.is_active
    /\ \/ /\ self.subscription_status = "active"
          /\ self.subscription_end_date # None
          /\ self.subscription_end_date > t
       \/ /\ self.subscription_status = "trial"
          /\ self.free_preview_used < 1

\* C25: a denied entitlement aborts the request.  Whenever an analysis
\* request is checked for an account that has no access at that moment,
\* the request ends as denied in that step, with the users table and the
\* analyses unchanged; a denied request never does anything afterwards and
\* never has an analysis row.
C25_DeniedAborts ==
    /\ [][\A r \in Requests :
            /\ ( /\ rpc[r] = "idle" /\ rpc'[r] # "idle"
                 /\ ~Entitled(users[rUser'[r]], now) )
               => ( /\ rpc'[r] = "denied"
                    /\ users' = users
                    /\ analyses' = analyses )
            /\ rpc[r] = "denied" => rpc'[r] = "denied"]_vars
    /\ [](\A r \in Requests :
            rpc[r] = "denied" => \A row \in analyses : row.id # r)

\* A request was denied for an account whose subscription has ended.
C25_Witness ==
    \E r \in Requests :
       /\ rpc[r] = "denied"
       /\ users[rUser[r]].subscription_status = "active"
       /\ users[rUser[r]].subscription_end_date = 1
       /\ users[rUser[r]].free_preview_used = 0
       /\ users[rUser[r]].is_active
       /\ now = 1
       /\ analyses = {}

\* C26: the preview and the analysis commit together.  A step that changes
\* free_preview_used of an account is the commit of one of its requests and
\* stores that request's analysis row; a request whose commit fails, and a
\* request rejected for missing fields, leave the users table and the
\* analyses as they were, so an unused preview is still unused.
C26_CommitTogether ==
    [][/\ \A u \in Users :
            users'[u].free_preview_used # users[u].free_preview_used
            => \E r \in Requests :
                  /\ rUser[r] = u
                  /\ rpc[r] = "commit" /\ rpc'[r] = "ok"
                  /\ \E row \in analyses' \ analyses : row.id = r
       /\ \A r \in Requests :
            ( \/ rpc[r] = "commit" /\ rpc'[r] = "error"
              \/ rpc[r] = "idle" /\ rpc'[r] = "bad_request" )
            => ( users' = users /\ analyses' = analyses )]_vars

\* The commit of a request that had taken the preview failed and stored
\* nothing; the preview was consumed by another request of the account.
C26_Witness ==
    \E r1, r2 \in Requests :
       /\ rpc[r1] = "error" /\ rPreview[r1]
       /\ rpc[r2] = "ok" /\ rPreview[r2]
       /\ rUser[r1] = rUser[r2]
       /\ users[rUser[r1]].free_preview_used = 1
       /\ \A row \in analyses : row.id # r1

\* C27: only the trial path consumes the preview.  A request that is
\* checked while the account's status is not "trial" does not take the
\* preview branch, the commit of a request that did not take it leaves the
\* users table unchanged, and free_preview_used changes only from 0 to 1
\* and only in the commit of a request that took the preview branch.
C27_TrialOnly ==
    [][/\ \A r \in Requests :
            /\ ( /\ rpc[r] = "idle" /\ rpc'[r] # "idle"
                 /\ users[rUser'[r]].subscription_status # "trial" )
               => ~rPreview'[r]
            /\ ( rpc[r] = "commit" /\ rpc'[r] = "ok" /\ ~rPreview[r] )
               => users' = users
       /\ \A u \in Users :
            users'[u].free_preview_used # users[u].free_preview_used
            => /\ users[u].free_preview_used = 0
               /\ users'[u].free_preview_used = 1
               /\ \E r \in Requests :
                     /\ rUser[r] = u /\ rPreview[r]
                     /\ rpc[r] = "commit" /\ rpc'[r] = "ok"]_vars

\* An active subscriber with free_preview_used = 0 got an analysis and the
\* counter is still 0.
C27_Witness ==
    \E r \in Requests :
       /\ rpc[r] = "ok"
       /\ ~rPreview[r]
       /\ users[rUser[r]].subscription_status = "active"
       /\ users[rUser[r]].free_preview_used = 0
       /\ \E row \in analyses : row.id = r

C29_AnswersAgree ==
    \A u \in Users :
       has_analysis_access(users[u], now)
          <=> (get_remaining_requests(users[u], now) > 0)

\* C30: entitlement does not depend on trial_ends_at.  For every account
\* record and every time, has_analysis_access and get_remaining_requests
\* give the same results on the record and on the record with any other
\* trial_ends_at, before or after now.
C30_TrialEndIgnored ==
    \A u \in Users : \A te \in {0, now, TrialDays, MaxTime + TrialDays} :
       LET other == [users[u] EXCEPT !.trial_ends_at = te] IN
       /\ has_analysis_access(other, now) = has_analysis_access(users[u], now)
       /\ get_remaining_requests(other, now)
             = get_remaining_requests(users[u], now)

\* has_analysis_access returned True for a trial account with an unused
\* preview whose trial window has passed.
C30_Witness ==
    /\ ret.fn = "has_analysis_access"
    /\ ret.value = TRUE
    /\ users[ret.user].subscription_status = "trial"
    /\ users[ret.user].free_preview_used = 0
    /\ users[ret.user].trial_ends_at < now

====
